---------------------------- MODULE Spec2Model ----------------------------
(***************************************************************************)
(* A model of the DNS wire codec of mcombeau/go-dns-tools: domain-name     *)
(* decoding with compression pointers, resource-record framing, the RDATA  *)
(* interpreters, the message decoder and the resource-record encoder.      *)
(*                                                                         *)
(* Conventions.  A byte buffer is a sequence of numbers in 0..255; Go's    *)
(* 0-based data[k] is At(data, k).  A Go string is the sequence of its     *)
(* bytes.  A Go error is its message (Nil for a nil error).  An index out  *)
(* of range makes the Go runtime panic; a panicking integer read is the    *)
(* value Panic, a panicking string function returns PanicStr, and the      *)
(* panic propagates through every caller (no function recovers).           *)
(***************************************************************************)
EXTENDS Naturals, Integers, Sequences, FiniteSets, TLC

VARIABLES data, pc, offset, i, header, questions, records, answers,
          nameServers, additionals, section, msg, err, trail, encoded,
          nameOut, cnameOut

vars == <<data, pc, offset, i, header, questions, records, answers,
          nameServers, additionals, section, msg, err, trail, encoded,
          nameOut, cnameOut>>

---------------------------------------------------------------------------
(* Bounds of the model *)

\* Largest number of entries laid out in a message body.
MaxChunks == 2
\* Longest raw buffer handed to the domain-name decoder on its own.
MaxNameBuf == 4
\* Loop iterations after which a name decode counts as not terminating.
MaxSteps == 12

---------------------------------------------------------------------------
(* Values *)

Nil == "nil"
Panic == 0 - 1
PanicStr == <<Panic>>

\* Record types (spec section 6; the cases of decodeRData).
A == 1
NS == 2
CNAME == 5
SOA == 6
PTR == 12
MX == 15
TXT == 16
AAAA == 28

ErrBufferTooShort == "BufferTooShort"
ErrInvalidLabelLength == "InvalidLabelLength"
ErrCompressionPointer == "CompressionPointerError"
ErrDiverged == "diverged"

---------------------------------------------------------------------------
(* Bytes, integers and strings *)

At(d, k) == d[k + 1]

\* Go's d[lo:hi]
Slice(d, lo, hi) == [k \in 1..(hi - lo) |-> d[lo + k]]

Dot == 46
Space == 32

\* Decimal digits of n, as fmt's %d and strconv.Itoa print them.
RECURSIVE Itoa(_)
Itoa(n) == IF n < 10 THEN <<48 + n>> ELSE Itoa(n \div 10) \o <<48 + (n % 10)>>

\* strings.Join(parts, sep)
RECURSIVE Join(_, _)
Join(parts, sep) ==
    IF Len(parts) = 0 THEN <<>>
    ELSE IF Len(parts) = 1 THEN parts[1]
    ELSE parts[1] \o sep \o Join(Tail(parts), sep)

decodeUint16(d, off) ==
    IF off + 2 > Len(d) THEN Panic
    ELSE At(d, off) * 256 + At(d, off + 1)

\* A 32-bit value is kept as its four bytes, most significant first: TLC
\* computes with 32-bit signed integers, which cannot hold every uint32.
Panic32 == <<Panic>>

decodeUint32(d, off) ==
    IF off + 4 > Len(d) THEN Panic32
    ELSE <<At(d, off), At(d, off + 1), At(d, off + 2), At(d, off + 3)>>

encodeUint16(v) == <<(v \div 256) % 256, v % 256>>

encodeUint32(v) == <<v[1], v[2], v[3], v[4]>>

\* Remainders of the long division of a 32-bit value by ten, byte by byte.
Rem10(v, k) ==
    LET r1 == v[1] % 10
        r2 == (r1 * 256 + v[2]) % 10
        r3 == (r2 * 256 + v[3]) % 10
        r4 == (r3 * 256 + v[4]) % 10
    IN <<0, r1, r2, r3, r4>>[k + 1]

Div10(v) == [k \in 1..4 |-> (Rem10(v, k - 1) * 256 + v[k]) \div 10]

\* strconv.Itoa(int(v)) of a 32-bit value v.
RECURSIVE digits32(_)
digits32(v) ==
    IF v = <<0, 0, 0, 0>> THEN <<>>
    ELSE digits32(Div10(v)) \o <<48 + Rem10(v, 4)>>

Itoa32(v) == IF v = <<0, 0, 0, 0>> THEN <<48>> ELSE digits32(v)

---------------------------------------------------------------------------
(* Domain Name Codec (spec section 4.2) *)

NameResult(name, n, e, hops) == [name |-> name, n |-> n, err |-> e, hops |-> hops]

\* One run of the label loop: c is the read cursor, name the labels read so
\* far (each followed by a dot), consumed the bytes used at the origin once
\* the first pointer was followed (Panic before that), visited the offsets of
\* the pointers already followed.
RECURSIVE nameLoop(_, _, _, _, _, _, _)
nameLoop(d, origin, c, name, consumed, visited, fuel) ==
    LET hops == Cardinality(visited) IN
    IF fuel = 0 THEN NameResult(<<>>, 0, ErrDiverged, hops)
    ELSE IF c >= Len(d) THEN NameResult(<<>>, 0, ErrBufferTooShort, hops)
    ELSE LET b == At(d, c) IN
      IF b = 0 THEN
        NameResult(IF Len(name) = 0 THEN <<Dot>> ELSE name,
                   IF consumed = Panic THEN c + 1 - origin ELSE consumed,
                   Nil, hops)
      ELSE IF b >= 192 THEN
        IF c + 1 >= Len(d) THEN NameResult(<<>>, 0, ErrBufferTooShort, hops)
        ELSE LET target == (b % 64) * 256 + At(d, c + 1) IN
          IF target >= Len(d) \/ target >= c \/ c \in visited
          THEN NameResult(<<>>, 0, ErrCompressionPointer, hops)
          ELSE nameLoop(d, origin, target, name,
                        IF consumed = Panic THEN c + 2 - origin ELSE consumed,
                        visited \cup {c}, fuel - 1)
      ELSE IF b > 63 THEN NameResult(<<>>, 0, ErrInvalidLabelLength, hops)
      ELSE IF c + 1 + b > Len(d) THEN NameResult(<<>>, 0, ErrBufferTooShort, hops)
      ELSE nameLoop(d, origin, c + 1 + b,
                    name \o Slice(d, c + 1, c + 1 + b) \o <<Dot>>,
                    consumed, visited, fuel - 1)

decodeDomainName(d, off) == nameLoop(d, off, off, <<>>, Panic, {}, MaxSteps)

\* strings.Split(name, "."): the labels of a dotted name, the empty ones too.
RECURSIVE SplitDots(_, _)
SplitDots(s, cur) ==
    IF Len(s) = 0 THEN <<cur>>
    ELSE IF s[1] = Dot THEN <<cur>> \o SplitDots(Tail(s), <<>>)
    ELSE SplitDots(Tail(s), Append(cur, s[1]))

RECURSIVE encodeLabels(_)
encodeLabels(labels) ==
    IF Len(labels) = 0 THEN <<>>
    ELSE (IF Len(labels[1]) = 0 THEN <<>> ELSE <<Len(labels[1])>> \o labels[1])
         \o encodeLabels(Tail(labels))

\* Length byte and bytes of every label, then the zero byte.
encodeDomainName(name) == encodeLabels(SplitDots(name, <<>>)) \o <<0>>

---------------------------------------------------------------------------
(* net.IP.String, which decodeA prints an address payload with *)

HexDigit(n) == IF n < 10 THEN 48 + n ELSE 87 + n

\* Lower-case hexadecimal without leading zeros (net's appendHex).
RECURSIVE appendHex(_)
appendHex(n) ==
    IF n < 16 THEN <<HexDigit(n)>> ELSE appendHex(n \div 16) \o <<HexDigit(n % 16)>>

\* Two hexadecimal digits for every byte (net's hexString).
RECURSIVE hexString(_)
hexString(b) ==
    IF Len(b) = 0 THEN <<>>
    ELSE <<HexDigit(b[1] \div 16), HexDigit(b[1] % 16)>> \o hexString(Tail(b))

dottedQuad(b) ==
    Itoa(b[1]) \o <<Dot>> \o Itoa(b[2]) \o <<Dot>> \o Itoa(b[3]) \o <<Dot>> \o Itoa(b[4])

\* The 16-bit group starting at byte 2g of a 16-byte address, g in 0..7.
group(b, g) == b[2 * g + 1] * 256 + b[2 * g + 2]

\* Number of consecutive zero groups from group g on.
RECURSIVE zeroRun(_, _)
zeroRun(b, g) == IF g > 7 \/ group(b, g) # 0 THEN 0 ELSE 1 + zeroRun(b, g + 1)

\* Start of the first longest run of at least two zero groups, or 8.
longestRun(b) ==
    LET best == CHOOSE g \in 0..7 :
                  /\ \A h \in 0..7 : zeroRun(b, h) <= zeroRun(b, g)
                  /\ \A h \in 0..(g - 1) : zeroRun(b, h) < zeroRun(b, g)
    IN IF zeroRun(b, best) >= 2 THEN best ELSE 8

RECURSIVE ipv6Groups(_, _, _)
ipv6Groups(b, g, e0) ==
    IF g > 7 THEN <<>>
    ELSE IF g = e0 THEN
      <<58, 58>> \o (IF g + zeroRun(b, g) > 7 THEN <<>>
                     ELSE appendHex(group(b, g + zeroRun(b, g)))
                          \o ipv6Groups(b, g + zeroRun(b, g) + 1, e0))
    ELSE (IF g > 0 THEN <<58>> ELSE <<>>) \o appendHex(group(b, g))
         \o ipv6Groups(b, g + 1, e0)

\* "<nil>" for no bytes, dotted decimal for 4 bytes or an IPv4-mapped
\* address, RFC 5952 text for 16 bytes, "?" and the hexadecimal form otherwise.
ipString(b) ==
    IF Len(b) = 0 THEN <<60, 110, 105, 108, 62>>
    ELSE IF Len(b) = 4 THEN dottedQuad(b)
    ELSE IF Len(b) = 16 THEN
      IF (\A k \in 1..10 : b[k] = 0) /\ b[11] = 255 /\ b[12] = 255
      THEN dottedQuad(Slice(b, 12, 16))
      ELSE ipv6Groups(b, 0, longestRun(b))
    ELSE <<63>> \o hexString(b)

---------------------------------------------------------------------------
(* RDATA interpreters (record.go) *)

decodeA(d, start, end) ==
    IF end > Len(d) THEN PanicStr ELSE ipString(Slice(d, start, end))

decodeCNAME(d, off) ==
    LET r == decodeDomainName(d, off) IN
    IF r.err # Nil THEN <<>> ELSE r.name

decodeMX(d, off) ==
    LET preference == decodeUint16(d, off) IN
    IF preference = Panic THEN PanicStr
    ELSE LET r == decodeDomainName(d, off + 2) IN
      IF r.err # Nil THEN <<>>
      ELSE Itoa(preference) \o <<Space>> \o r.name

decodeTXT(d, start, end) ==
    IF end > Len(d) THEN PanicStr ELSE Slice(d, start, end)

\* The slice the fields are appended to starts as make([]string, 7).
soaInit == [k \in 1..7 |-> <<>>]

decodeSOA(d, off) ==
    LET m == decodeDomainName(d, off) IN
    IF m.err # Nil THEN <<>>
    ELSE LET off1 == off + m.n
             r == decodeDomainName(d, off1)
         IN
      IF r.err # Nil THEN <<>>
      ELSE LET off2 == off1 + r.n
               serial == decodeUint32(d, off2)
               refresh == decodeUint32(d, off2 + 4)
               retry == decodeUint32(d, off2 + 8)
               expire == decodeUint32(d, off2 + 12)
               minimum == decodeUint32(d, off2 + 16)
           IN
        IF Panic32 \in {serial, refresh, retry, expire, minimum} THEN PanicStr
        ELSE Join(soaInit \o <<m.name, r.name, Itoa32(serial), Itoa32(refresh),
                               Itoa32(retry), Itoa32(expire), Itoa32(minimum)>>,
                  <<Space>>)

decodeRData(d, rtype, off, length) ==
    IF off + length > Len(d) THEN [Raw |-> <<>>, Decoded |-> PanicStr]
    ELSE [Raw |-> Slice(d, off, off + length),
          Decoded |->
            CASE rtype \in {A, AAAA} -> decodeA(d, off, off + length)
              [] rtype \in {CNAME, PTR, NS} -> decodeCNAME(d, off)
              [] rtype = MX -> decodeMX(d, off)
              [] rtype = TXT -> decodeTXT(d, off, off + length)
              [] rtype = SOA -> decodeSOA(d, off)
              [] OTHER -> <<>>]

---------------------------------------------------------------------------
(* Resource Record Codec (record.go) *)

EmptyRR == [Name |-> <<>>, RType |-> 0, RClass |-> 0, TTL |-> <<0, 0, 0, 0>>, RDLength |-> 0,
            RData |-> [Raw |-> <<>>, Decoded |-> <<>>]]

ErrInvalidRR == "invalid DNS resource record"
ErrInvalidRDLength == "invalid DNS resource record RDATA length"

RRResult(rr, off, e, panicked) ==
    [rr |-> rr, off |-> off, err |-> e, panic |-> panicked]

\* decodeResourceRecord going on after a failed decode of the owner name.
decodeResourceRecordIgnoresNameError(d, off) ==
    LET nm == decodeDomainName(d, off)
        off1 == off + nm.n
    IN
    IF Len(d) < off1 + 10 THEN RRResult(EmptyRR, 0, ErrInvalidRR, FALSE)
    ELSE LET rtype == decodeUint16(d, off1)
             rclass == decodeUint16(d, off1 + 2)
             ttl == decodeUint32(d, off1 + 4)
             rdlength == decodeUint16(d, off1 + 8)
             off2 == off1 + 10
         IN
      IF Len(d) < off2 + rdlength
      THEN RRResult(EmptyRR, 0, ErrInvalidRDLength, FALSE)
      ELSE LET rdata == decodeRData(d, rtype, off2, rdlength) IN
        IF rdata.Decoded = PanicStr THEN RRResult(EmptyRR, 0, Nil, TRUE)
        ELSE RRResult([Name |-> nm.name, RType |-> rtype, RClass |-> rclass,
                       TTL |-> ttl, RDLength |-> rdlength, RData |-> rdata],
                      off2 + rdlength, Nil, FALSE)

\* decodeResourceRecord advancing by the length of the expanded owner name
\* instead of the bytes the name takes at its offset.
decodeResourceRecordExpandedName(d, off) ==
    LET nm == decodeDomainName(d, off) IN
    IF nm.err # Nil THEN RRResult(EmptyRR, 0, nm.err, FALSE)
    ELSE LET off1 == off + Len(encodeDomainName(nm.name)) IN
      IF Len(d) < off1 + 10 THEN RRResult(EmptyRR, 0, ErrInvalidRR, FALSE)
      ELSE LET rtype == decodeUint16(d, off1)
               rclass == decodeUint16(d, off1 + 2)
               ttl == decodeUint32(d, off1 + 4)
               rdlength == decodeUint16(d, off1 + 8)
               off2 == off1 + 10
           IN
        IF Len(d) < off2 + rdlength
        THEN RRResult(EmptyRR, 0, ErrInvalidRDLength, FALSE)
        ELSE LET rdata == decodeRData(d, rtype, off2, rdlength) IN
          IF rdata.Decoded = PanicStr THEN RRResult(EmptyRR, 0, Nil, TRUE)
          ELSE RRResult([Name |-> nm.name, RType |-> rtype, RClass |-> rclass,
                         TTL |-> ttl, RDLength |-> rdlength, RData |-> rdata],
                        off2 + rdlength, Nil, FALSE)

\* decodeResourceRecord without the check of RDLENGTH against the buffer.
decodeResourceRecordNoLengthCheck(d, off) ==
    LET nm == decodeDomainName(d, off) IN
    IF nm.err # Nil THEN RRResult(EmptyRR, 0, nm.err, FALSE)
    ELSE LET off1 == off + nm.n IN
      IF Len(d) < off1 + 10 THEN RRResult(EmptyRR, 0, ErrInvalidRR, FALSE)
      ELSE LET rtype == decodeUint16(d, off1)
               rclass == decodeUint16(d, off1 + 2)
               ttl == decodeUint32(d, off1 + 4)
               rdlength == decodeUint16(d, off1 + 8)
               off2 == off1 + 10
               rdata == decodeRData(d, rtype, off2, rdlength)
           IN
        IF rdata.Decoded = PanicStr THEN RRResult(EmptyRR, 0, Nil, TRUE)
        ELSE RRResult([Name |-> nm.name, RType |-> rtype, RClass |-> rclass,
                       TTL |-> ttl, RDLength |-> rdlength, RData |-> rdata],
                      off2 + rdlength, Nil, FALSE)

decodeResourceRecord(d, off) ==
    LET nm == decodeDomainName(d, off) IN
    IF nm.err # Nil THEN RRResult(EmptyRR, 0, nm.err, FALSE)
    ELSE LET off1 == off + nm.n IN
      IF Len(d) < off1 + 10 THEN RRResult(EmptyRR, 0, ErrInvalidRR, FALSE)
      ELSE LET rtype == decodeUint16(d, off1)
               rclass == decodeUint16(d, off1 + 2)
               ttl == decodeUint32(d, off1 + 4)
               rdlength == decodeUint16(d, off1 + 8)
               off2 == off1 + 10
           IN
        IF Len(d) < off2 + rdlength
        THEN RRResult(EmptyRR, 0, ErrInvalidRDLength, FALSE)
        ELSE LET rdata == decodeRData(d, rtype, off2, rdlength) IN
          IF rdata.Decoded = PanicStr THEN RRResult(EmptyRR, 0, Nil, TRUE)
          ELSE RRResult([Name |-> nm.name, RType |-> rtype, RClass |-> rclass,
                         TTL |-> ttl, RDLength |-> rdlength, RData |-> rdata],
                        off2 + rdlength, Nil, FALSE)

\* encodeResourceRecord writing the decoded form in place of the raw bytes.
encodeResourceRecordDecoded(buf, rr) ==
    buf \o encodeDomainName(rr.Name) \o encodeUint16(rr.RType)
        \o encodeUint16(rr.RClass) \o encodeUint32(rr.TTL)
        \o encodeUint16(rr.RDLength) \o rr.RData.Decoded

encodeResourceRecord(buf, rr) ==
    buf \o encodeDomainName(rr.Name) \o encodeUint16(rr.RType)
        \o encodeUint16(rr.RClass) \o encodeUint32(rr.TTL)
        \o encodeUint16(rr.RDLength) \o rr.RData.Raw

---------------------------------------------------------------------------
(* Header and question decoding (spec sections 4.1 and 4.5) *)

EmptyHeader == [Id |-> 0, Flags |-> 0, QuestionCount |-> 0, AnswerRRCount |-> 0,
                NameserverRRCount |-> 0, AdditionalRRCount |-> 0]

DecodeDNSHeader(d) ==
    IF Len(d) < 12 THEN [h |-> EmptyHeader, err |-> ErrBufferTooShort]
    ELSE [h |-> [Id |-> decodeUint16(d, 0),
                 Flags |-> decodeUint16(d, 2),
                 QuestionCount |-> decodeUint16(d, 4),
                 AnswerRRCount |-> decodeUint16(d, 6),
                 NameserverRRCount |-> decodeUint16(d, 8),
                 AdditionalRRCount |-> decodeUint16(d, 10)],
          err |-> Nil]

EmptyQuestion == [Name |-> <<>>, QType |-> 0, QClass |-> 0]

decodeDNSQuestion(d, off) ==
    LET nm == decodeDomainName(d, off) IN
    IF nm.err # Nil THEN [q |-> EmptyQuestion, off |-> 0, err |-> nm.err]
    ELSE LET off1 == off + nm.n IN
      IF Len(d) < off1 + 4
      THEN [q |-> EmptyQuestion, off |-> 0, err |-> ErrBufferTooShort]
      ELSE [q |-> [Name |-> nm.name, QType |-> decodeUint16(d, off1),
                   QClass |-> decodeUint16(d, off1 + 2)],
            off |-> off1 + 4, err |-> Nil]

---------------------------------------------------------------------------
(* Message Decoder (print.go, package decoder) *)

ErrNil == [prefix |-> Nil, cause |-> Nil]

\* errors.New(text)
NewError(text) == [prefix |-> text, cause |-> Nil]

\* fmt.Errorf(prefix + ": %v", cause)
Errorf(prefix, cause) == [prefix |-> prefix, cause |-> cause]

MsgTooShort == "invalid DNS message: too short"
MsgHeader == "failed to parse DNS header"
MsgQuestion == "failed to parse DNS question"
MsgAnswer == "failed to parse DNS answer"
MsgAuthority == "failed to parse DNS authority name server"

RRSections == {"answer", "authority", "additional"}

\* The text DecodeDNSMessage wraps a failure of each record section in.
SectionMessage(s) ==
    CASE s = "answer" -> MsgAnswer
      [] s = "authority" -> MsgAuthority
      [] s = "additional" -> MsgAnswer

\* SectionCount with the authority section given the answer count.
SectionCountSwapped(s) ==
    CASE s = "answer" -> header.AnswerRRCount
      [] s = "authority" -> header.AnswerRRCount
      [] s = "additional" -> header.AdditionalRRCount

\* The count DecodeDNSMessage hands decodeResourceRecords for each section.
SectionCount(s) ==
    CASE s = "answer" -> header.AnswerRRCount
      [] s = "authority" -> header.NameserverRRCount
      [] s = "additional" -> header.AdditionalRRCount

\* return nil, err
Fail(e) ==
    /\ pc' = "done"
    /\ msg' = <<>>
    /\ err' = e

Start ==
    /\ pc = "start"
    /\ IF Len(data) < 12
       THEN /\ Fail(NewError(MsgTooShort))
            /\ UNCHANGED <<header, offset>>
       ELSE LET r == DecodeDNSHeader(data) IN
         IF r.err # Nil
         THEN /\ Fail(Errorf(MsgHeader, r.err))
              /\ UNCHANGED <<header, offset>>
         ELSE /\ header' = r.h
              /\ offset' = 12
              /\ pc' = "questions"
              /\ UNCHANGED <<msg, err>>
    /\ section' = IF pc' = "questions" THEN "question" ELSE "header"
    /\ UNCHANGED <<data, i, questions, records, answers, nameServers,
                   additionals, trail, encoded, nameOut, cnameOut>>

\* One pass of the question loop.
QuestionStep ==
    /\ pc = "questions"
    /\ i < header.QuestionCount
    /\ LET r == decodeDNSQuestion(data, offset) IN
       IF r.err # Nil
       THEN /\ Fail(Errorf(MsgQuestion, r.err))
            /\ UNCHANGED <<questions, offset, i, trail>>
       ELSE /\ questions' = Append(questions, r.q)
            /\ offset' = r.off
            /\ i' = i + 1
            /\ trail' = Append(trail, [section |-> section, start |-> offset,
                                       end |-> r.off])
            /\ UNCHANGED <<pc, msg, err>>
    /\ UNCHANGED <<data, header, records, answers, nameServers, additionals,
                   section, encoded, nameOut, cnameOut>>

\* The question loop ends; decodeResourceRecords is called for the answers.
QuestionsDone ==
    /\ pc = "questions"
    /\ i >= header.QuestionCount
    /\ pc' = "records"
    /\ section' = "answer"
    /\ i' = 0
    /\ records' = <<>>
    /\ UNCHANGED <<data, offset, header, questions, answers, nameServers,
                   additionals, msg, err, trail, encoded, nameOut, cnameOut>>

\* RecordStep returning the records decoded so far when one fails.
RecordStepKeepsPartial ==
    /\ pc = "records"
    /\ i < SectionCount(section)
    /\ LET r == decodeResourceRecord(data, offset) IN
       IF r.panic
       THEN /\ pc' = "panicked"
            /\ UNCHANGED <<records, offset, i, trail, msg, err>>
       ELSE IF r.err # Nil
       THEN /\ pc' = "return"
            /\ UNCHANGED <<records, offset, i, trail, msg, err>>
       ELSE /\ records' = Append(records, r.rr)
            /\ offset' = r.off
            /\ i' = i + 1
            /\ trail' = Append(trail, [section |-> section, start |-> offset,
                                       end |-> r.off])
            /\ UNCHANGED <<pc, msg, err>>
    /\ UNCHANGED <<data, header, questions, answers, nameServers, additionals,
                   section, encoded, nameOut, cnameOut>>

\* One pass of the loop of decodeResourceRecords.
RecordStep ==
    /\ pc = "records"
    /\ i < SectionCount(section)
    /\ LET r == decodeResourceRecord(data, offset) IN
       IF r.panic
       THEN /\ pc' = "panicked"
            /\ UNCHANGED <<records, offset, i, trail, msg, err>>
       ELSE IF r.err # Nil
       THEN /\ Fail(Errorf(SectionMessage(section), r.err))
            /\ UNCHANGED <<records, offset, i, trail>>
       ELSE /\ records' = Append(records, r.rr)
            /\ offset' = r.off
            /\ i' = i + 1
            /\ trail' = Append(trail, [section |-> section, start |-> offset,
                                       end |-> r.off])
            /\ UNCHANGED <<pc, msg, err>>
    /\ UNCHANGED <<data, header, questions, answers, nameServers, additionals,
                   section, encoded, nameOut, cnameOut>>

\* decodeResourceRecords returns its records and the offset; the caller keeps
\* them and goes on to the next section.
RecordsReturn ==
    /\ pc = "records"
    /\ i >= SectionCount(section)
    /\ answers' = IF section = "answer" THEN records ELSE answers
    /\ nameServers' = IF section = "authority" THEN records ELSE nameServers
    /\ additionals' = IF section = "additional" THEN records ELSE additionals
    /\ IF section = "additional"
       THEN /\ pc' = "return"
            /\ UNCHANGED <<section, i, records>>
       ELSE /\ section' = IF section = "answer" THEN "authority" ELSE "additional"
            /\ i' = 0
            /\ records' = <<>>
            /\ UNCHANGED pc
    /\ UNCHANGED <<data, offset, header, questions, msg, err, trail, encoded,
                   nameOut, cnameOut>>

Return ==
    /\ pc = "return"
    /\ msg' = <<[Header |-> header, Questions |-> questions, Answers |-> answers,
                 NameServers |-> nameServers, Additionals |-> additionals]>>
    /\ err' = ErrNil
    /\ pc' = "done"
    /\ UNCHANGED <<data, offset, i, header, questions, records, answers,
                   nameServers, additionals, section, trail, encoded, nameOut,
                   cnameOut>>

\* Every record of a decoded message is encoded again, each into its own buffer.
EncodeRecords ==
    /\ pc = "done"
    /\ msg # <<>>
    /\ LET rrs == msg[1].Answers \o msg[1].NameServers \o msg[1].Additionals IN
       encoded' = [k \in 1..Len(rrs) |-> encodeResourceRecord(<<>>, rrs[k])]
    /\ pc' = "encoded"
    /\ UNCHANGED <<data, offset, i, header, questions, records, answers,
                   nameServers, additionals, section, msg, err, trail, nameOut,
                   cnameOut>>

\* A domain name is decoded at an offset of a buffer, on its own and as the
\* payload of a CNAME record.
DecodeName ==
    /\ pc = "name"
    /\ nameOut' = decodeDomainName(data, offset)
    /\ cnameOut' = decodeCNAME(data, offset)
    /\ pc' = "named"
    /\ UNCHANGED <<data, offset, i, header, questions, records, answers,
                   nameServers, additionals, section, msg, err, trail, encoded>>

---------------------------------------------------------------------------
(* Inputs: the buffers the decoders are run on *)

\* The 10 fixed bytes of a record: type, class IN, TTL 60, RDLENGTH.
Fixed(rtype, rdlength) == <<0, rtype, 0, 1, 0, 0, 0, 60, 0, rdlength>>

Kinds == {"Q", "A", "AAAA", "CNAME", "NSBad", "MX", "MX0", "TXT", "SOA", "SOAShort",
          "Other", "RDLong", "OwnerLoop"}

\* The bytes of an entry of a kind laid out at offset pos of the message.
Chunk(kind, pos) ==
    CASE kind = "Q" -> <<1, 97, 0, 0, 1, 0, 1>>
      [] kind = "A" -> <<192, 12>> \o Fixed(A, 4) \o <<93, 184, 216, 34>>
      [] kind = "AAAA" -> <<0>> \o Fixed(AAAA, 16)
                          \o <<32, 1, 13, 184, 0, 0, 0, 0, 0, 0, 0, 0, 0, 0, 0, 1>>
      [] kind = "CNAME" -> <<0>> \o Fixed(CNAME, 4) \o <<1, 98, 192, 12>>
      [] kind = "NSBad" -> <<0>> \o Fixed(NS, 2) \o <<192, pos + 11>>
      [] kind = "MX" -> <<0>> \o Fixed(MX, 5) \o <<0, 10, 1, 109, 0>>
      [] kind = "MX0" -> <<0>> \o Fixed(MX, 0)
      [] kind = "TXT" -> <<1, 97, 0>> \o Fixed(TXT, 2) \o <<104, 105>>
      [] kind = "SOA" -> <<0>> \o Fixed(SOA, 24) \o <<0, 1, 114, 0>>
                         \o <<0, 0, 1, 0, 0, 0, 0, 2, 0, 0, 0, 3, 0, 0, 0, 4, 0, 0, 0, 5>>
      [] kind = "SOAShort" -> <<0>> \o Fixed(SOA, 2) \o <<0, 0>>
      [] kind = "Other" -> <<0>> \o Fixed(99, 1) \o <<7>>
      [] kind = "RDLong" -> <<0>> \o Fixed(A, 5) \o <<1>>
      [] kind = "OwnerLoop" -> <<1, 97, 192, pos>> \o Fixed(A, 0)

RECURSIVE Body(_, _)
Body(kinds, pos) ==
    IF Len(kinds) = 0 THEN <<>>
    ELSE LET c == Chunk(kinds[1], pos) IN c \o Body(Tail(kinds), pos + Len(c))

\* A header of id 1234, the flags of a response, and the four counts.
HeaderBytes(qd, an, ns, ar) ==
    <<4, 210, 129, 128>> \o encodeUint16(qd) \o encodeUint16(an)
                         \o encodeUint16(ns) \o encodeUint16(ar)

KindSeqs == UNION {[1..n -> Kinds] : n \in 0..MaxChunks}

\* Messages: any counts announcing at most one entry more than the body
\* holds room for, and two buffers too short for a header.
Messages ==
    {HeaderBytes(c[1], c[2], c[3], c[4]) \o Body(ks, 12) :
        c \in {x \in [1..4 -> 0..(MaxChunks + 1)] :
                 x[1] + x[2] + x[3] + x[4] <= MaxChunks + 1},
        ks \in KindSeqs}
    \cup {<<>>, SubSeq(HeaderBytes(0, 1, 0, 0), 1, 11)}

\* The bytes raw name buffers are made of: the terminator, label lengths 1
\* and 2, a letter (also an invalid length), and the first byte of a pointer
\* (also a pointer's out-of-range low byte).
NameBytes == {0, 1, 2, 97, 192}

NameBuffers == UNION {[1..n -> NameBytes] : n \in 1..MaxNameBuf}

InitCommon ==
    /\ i = 0
    /\ header = EmptyHeader
    /\ questions = <<>>
    /\ records = <<>>
    /\ answers = <<>>
    /\ nameServers = <<>>
    /\ additionals = <<>>
    /\ section = "header"
    /\ msg = <<>>
    /\ err = ErrNil
    /\ trail = <<>>
    /\ encoded = <<>>
    /\ nameOut = NameResult(<<>>, 0, Nil, 0)
    /\ cnameOut = <<>>

InitMessage ==
    /\ data \in Messages
    /\ offset = 0
    /\ pc = "start"
    /\ InitCommon

InitName ==
    /\ data \in NameBuffers
    /\ offset \in 0..Len(data)
    /\ pc = "name"
    /\ InitCommon

Init == InitMessage \/ InitName

Next ==
    \/ Start
    \/ QuestionStep
    \/ QuestionsDone
    \/ RecordStep
    \/ RecordsReturn
    \/ Return
    \/ EncodeRecords
    \/ DecodeName

Spec == Init /\ [][Next]_vars

---------------------------------------------------------------------------
(* What the wire format says of a buffer, read off its bytes *)

\* The decoded records of the returned message, in section order, and the
\* offsets each was decoded between.
Decoded == msg[1].Answers \o msg[1].NameServers \o msg[1].Additionals

RRTrail == SelectSeq(trail, LAMBDA t : t.section \in RRSections)

Returned == pc \in {"done", "encoded"} /\ msg # <<>>

\* decodeResourceRecords is about to decode the record at offset.
AtRecord ==
    /\ pc = "records"
    /\ i < SectionCount(section)

\* The decoder stopped at the entry at offset of the current record section.
StoppedAtRecord ==
    /\ pc \in {"done", "panicked"}
    /\ section \in RRSections
    /\ i < SectionCount(section)

\* Where a name of literal labels starting at c ends (past its zero byte),
\* or Panic when the bytes at c are no such name.
RECURSIVE LiteralEnd(_, _)
LiteralEnd(d, c) ==
    IF c >= Len(d) THEN Panic
    ELSE IF At(d, c) = 0 THEN c + 1
    ELSE IF At(d, c) <= 63 /\ c + 1 + At(d, c) <= Len(d)
         THEN LiteralEnd(d, c + 1 + At(d, c))
    ELSE Panic

\* The text of the literal labels starting at c, each followed by a dot.
RECURSIVE LiteralText(_, _)
LiteralText(d, c) ==
    IF At(d, c) = 0 THEN <<>>
    ELSE Slice(d, c + 1, c + 1 + At(d, c)) \o <<Dot>>
         \o LiteralText(d, c + 1 + At(d, c))

\* The bytes at c are a compression pointer; its target.
IsPointer(d, c) == c + 1 < Len(d) /\ At(d, c) >= 192
PointerTarget(d, c) == (At(d, c) % 64) * 256 + At(d, c + 1)

\* A label at c is followed by a pointer back to c.
LabelLoop(d, c) ==
    /\ c < Len(d)
    /\ At(d, c) \in 1..63
    /\ IsPointer(d, c + 1 + At(d, c))
    /\ PointerTarget(d, c + 1 + At(d, c)) = c

\* Where the name starting at c ends in its own section: past its zero byte,
\* or past the first pointer met after literal labels.
RECURSIVE OriginEnd(_, _)
OriginEnd(d, c) ==
    IF c >= Len(d) THEN Panic
    ELSE IF At(d, c) = 0 THEN c + 1
    ELSE IF IsPointer(d, c) THEN c + 2
    ELSE IF At(d, c) <= 63 /\ c + 1 + At(d, c) <= Len(d)
         THEN OriginEnd(d, c + 1 + At(d, c))
    ELSE Panic

\* The record at off has a decodable owner name and its 10 fixed bytes; f is
\* where the fixed bytes start.
HasFixed(off) ==
    /\ decodeDomainName(data, off).err = Nil
    /\ Len(data) >= OriginEnd(data, off) + 10

DeclaredLength(off) == LET f == OriginEnd(data, off) IN
    At(data, f + 8) * 256 + At(data, f + 9)

PayloadStart(off) == OriginEnd(data, off) + 10

\* The declared payload length runs past the end of the buffer.
PayloadOverrun(off) ==
    HasFixed(off) /\ PayloadStart(off) + DeclaredLength(off) > Len(data)

\* Name, fixed bytes and payload all lie within the buffer.
FramingValid(off) ==
    HasFixed(off) /\ PayloadStart(off) + DeclaredLength(off) <= Len(data)

---------------------------------------------------------------------------
(* Claims *)

\* The entry the decoder stopped at does not decode.
EntryFails ==
    \/ section = "header" /\ Len(data) < 12
    \/ /\ section = "question"
       /\ i < header.QuestionCount
       /\ decodeDNSQuestion(data, offset).err # Nil
    \/ /\ section \in RRSections
       /\ i < SectionCount(section)
       /\ decodeResourceRecord(data, offset).err # Nil

\* C1: DecodeDNSMessage is all-or-nothing.  A message is returned only with a
\* nil error; when the header, a question or a record of any section fails to
\* decode, also after earlier entries decoded, the call returns a nil message
\* and a non-nil error, and nothing decoded so far is handed back.
C1_AllOrNothing ==
    /\ msg # <<>> => pc \in {"done", "encoded"} /\ err = ErrNil
    /\ pc = "done" /\ err # ErrNil => msg = <<>>
    /\ pc = "done" /\ EntryFails => msg = <<>> /\ err # ErrNil
    /\ pc = "done" => (msg = <<>>) # (err = ErrNil)

\* A second record of a section fails after the first one decoded.
C1_Witness ==
    /\ pc = "done"
    /\ section \in RRSections
    /\ i >= 1
    /\ EntryFails
    /\ msg = <<>>
    /\ err # ErrNil

\* C2: a record whose declared payload length exceeds the bytes left after
\* its 10 fixed bytes makes decodeResourceRecord return the RDATA-length error
\* without slicing the payload (no panic, no record), at every offset a
\* record is decoded at, and DecodeDNSMessage returns that failure with no
\* message.
C2_LengthOverrunFails ==
    /\ AtRecord /\ PayloadOverrun(offset) =>
         LET r == decodeResourceRecord(data, offset) IN
         r.err = ErrInvalidRDLength /\ ~r.panic /\ r.rr = EmptyRR
    /\ StoppedAtRecord /\ PayloadOverrun(offset) =>
         /\ pc = "done"
         /\ msg = <<>>
         /\ err = Errorf(SectionMessage(section), ErrInvalidRDLength)

C2_Witness ==
    /\ pc = "done"
    /\ StoppedAtRecord
    /\ PayloadOverrun(offset)
    /\ msg = <<>>
    /\ err.cause = ErrInvalidRDLength

\* C3: a record whose framing is valid never aborts the decode, whatever its
\* type and payload: the decoder neither fails nor crashes at it.
C3_InterpretersRecoverLocally ==
    StoppedAtRecord => ~FramingValid(offset)

\* The texts a failure of each section is reported with.
SectionTexts(s) ==
    CASE s = "header" -> {MsgTooShort, MsgHeader}
      [] s = "question" -> {MsgQuestion}
      [] s \in RRSections -> {SectionMessage(s)}

\* C7: the error of a failed decode identifies the section that failed: its
\* text is the one of that section and of no other section.
C7_ErrorIdentifiesSection ==
    pc = "done" /\ err # ErrNil =>
      /\ err.prefix \in SectionTexts(section)
      /\ \A s \in ({"header", "question"} \cup RRSections) \ {section} :
           err.prefix \notin SectionTexts(s)

\* The place of each section in a message.
SectionRank(s) ==
    CASE s = "question" -> 1
      [] s = "answer" -> 2
      [] s = "authority" -> 3
      [] s = "additional" -> 4

\* C8: after a successful decode every section holds exactly as many entries
\* as the header's count for it; the entries were decoded in the order
\* questions, answers, authority, additional, the first at offset 12 and each
\* next one where the previous one ended.
C8_CountsMatchSections ==
    /\ Returned =>
         /\ Len(msg[1].Questions) = At(data, 4) * 256 + At(data, 5)
         /\ Len(msg[1].Answers) = At(data, 6) * 256 + At(data, 7)
         /\ Len(msg[1].NameServers) = At(data, 8) * 256 + At(data, 9)
         /\ Len(msg[1].Additionals) = At(data, 10) * 256 + At(data, 11)
         /\ Len(trail) = Len(msg[1].Questions) + Len(Decoded)
         /\ \A k \in 1..Len(trail) :
              trail[k].section =
                IF k <= Len(msg[1].Questions) THEN "question"
                ELSE IF k <= Len(msg[1].Questions) + Len(msg[1].Answers)
                     THEN "answer"
                ELSE IF k <= Len(trail) - Len(msg[1].Additionals) THEN "authority"
                ELSE "additional"
    /\ \A k \in 1..Len(trail) :
         /\ trail[k].start = IF k = 1 THEN 12 ELSE trail[k - 1].end
         /\ k > 1 => SectionRank(trail[k - 1].section) <= SectionRank(trail[k].section)

\* A message with a question and records in two sections is returned.
C8_Witness ==
    /\ Returned
    /\ Len(msg[1].Questions) = 1
    /\ Len(msg[1].Answers) = 1
    /\ Len(msg[1].NameServers) = 0
    /\ Len(msg[1].Additionals) = 1

\* C10: no decoder reads a byte at an index past the buffer: no read panics.
C10_NoReadOutOfBounds == pc # "panicked"

\* The payload at p holds two names and 20 more bytes; its seven fields.
SOAWellFormed(p) ==
    LET m == decodeDomainName(data, p) IN
    /\ m.err = Nil
    /\ decodeDomainName(data, p + m.n).err = Nil
    /\ p + m.n + decodeDomainName(data, p + m.n).n + 20 <= Len(data)

SOAFields(p) ==
    LET m == decodeDomainName(data, p)
        r == decodeDomainName(data, p + m.n)
        q == p + m.n + r.n
    IN <<m.name, r.name>>
       \o [k \in 1..5 |-> Itoa32(Slice(data, q + 4 * (k - 1), q + 4 * k))]

\* C9: an SOA payload of two names and five 32-bit integers decodes to
\* exactly the 7 fields joined by single spaces, primary source first and
\* minimum last, with nothing before or after them.
C9_SOASevenFields ==
    Returned =>
      \A k \in 1..Len(Decoded) :
        LET p == RRTrail[k].end - Decoded[k].RDLength IN
        Decoded[k].RType = SOA /\ SOAWellFormed(p) =>
          Decoded[k].RData.Decoded = Join(SOAFields(p), <<Space>>)

\* The last n bytes of b.
Suffix(b, n) == SubSeq(b, Len(b) - n + 1, Len(b))

\* C5: every decoded record keeps its payload bytes as they stand in the
\* buffer, RDLength of them, whatever its type and decoded form, and
\* encodeResourceRecord ends the encoded record with the 2-byte RDLength and
\* exactly those bytes.
C5_RawPayloadRoundTrip ==
    /\ Returned =>
         \A k \in 1..Len(Decoded) :
           LET o == RRTrail[k].start
               payload == Slice(data, PayloadStart(o),
                                PayloadStart(o) + DeclaredLength(o))
           IN /\ Decoded[k].RData.Raw = payload
              /\ Decoded[k].RDLength = DeclaredLength(o)
              /\ Len(Decoded[k].RData.Raw) = Decoded[k].RDLength
              /\ RRTrail[k].end = PayloadStart(o) + DeclaredLength(o)
    /\ pc = "encoded" =>
         /\ Len(encoded) = Len(Decoded)
         /\ \A k \in 1..Len(encoded) :
              LET o == RRTrail[k].start
                  n == DeclaredLength(o)
              IN /\ Len(encoded[k]) >= n + 2
                 /\ Suffix(encoded[k], n + 2) =
                      <<n \div 256, n % 256>>
                      \o Slice(data, PayloadStart(o), PayloadStart(o) + n)

\* Two records are encoded again: one without a decoded form, one whose
\* decoded form differs from its payload bytes.
C5_Witness ==
    /\ pc = "encoded"
    /\ \E k \in 1..Len(Decoded) :
         Decoded[k].RData.Decoded = <<>> /\ Decoded[k].RData.Raw # <<>>
    /\ \E k \in 1..Len(Decoded) :
         /\ Decoded[k].RData.Decoded # <<>>
         /\ Decoded[k].RData.Decoded # Decoded[k].RData.Raw

\* C6: the bytes a name decode reports are those the name takes at its own
\* offset: 1 and "." for a lone zero byte; the labels' lengths plus one each
\* plus one, and the dotted labels, for literal labels; 2, and the name found
\* at the target, for a pointer to an earlier offset.  decodeResourceRecord
\* reads TYPE right after those bytes, unless an interpreter crashes.
C6_ConsumedAtOrigin ==
    /\ pc = "named" /\ offset < Len(data) =>
         /\ At(data, offset) = 0 =>
              nameOut.err = Nil /\ nameOut.name = <<Dot>> /\ nameOut.n = 1
         /\ At(data, offset) # 0 /\ LiteralEnd(data, offset) # Panic =>
              /\ nameOut.err = Nil
              /\ nameOut.name = LiteralText(data, offset)
              /\ nameOut.n = LiteralEnd(data, offset) - offset
              /\ nameOut.n = Len(nameOut.name) + 1
         /\ IsPointer(data, offset) /\ PointerTarget(data, offset) < offset =>
              LET at == decodeDomainName(data, PointerTarget(data, offset)) IN
              /\ nameOut.err = at.err
              /\ at.err = Nil => nameOut.name = at.name /\ nameOut.n = 2
    /\ AtRecord /\ FramingValid(offset) =>
         LET r == decodeResourceRecord(data, offset) IN
         ~r.panic =>
           /\ r.err = Nil
           /\ r.rr.RType = At(data, OriginEnd(data, offset)) * 256
                           + At(data, OriginEnd(data, offset) + 1)
           /\ r.off = PayloadStart(offset) + DeclaredLength(offset)

\* A pointer to an earlier name of one label has been decoded.
C6_Witness ==
    /\ pc = "named"
    /\ IsPointer(data, offset)
    /\ PointerTarget(data, offset) < offset
    /\ nameOut.err = Nil
    /\ nameOut.n = 2
    /\ Len(nameOut.name) = 2

===========================================================================
